---- MODULE Spec2Model ----
(***************************************************************************)
(* xgtsh: the command shell of src/src/xgtsh.py (class XgtCli).            *)
(*                                                                         *)
(* Text is modelled at the character level: a token is a sequence of       *)
(* one-character strings, an argument line is the sequence of its          *)
(* whitespace-separated tokens (line.split()).  cmd.Cmd strips the         *)
(* argument, so "len(line) < 1" is "the line has no token".                *)
(* The remote service is state (frames, jobs, default namespace) plus a    *)
(* log of the calls each handler issues; `fail` says whether the service   *)
(* rejects the first call a handler makes (xgt.XgtError).                  *)
(***************************************************************************)
EXTENDS Integers, Sequences, FiniteSets

VARIABLES
  mode,        \* "query" | "command" | "file" | "interactive" (__main__)
  nsOpt,       \* options.namespace: a line, <<>> when absent (__main__)
  connected,   \* self.__server is not None
  verbose,     \* self.__verbose
  debug,       \* self.__debug
  version,     \* (xgt.__version_major__, _minor__, _patch__)
  defaultNs,   \* service: the connection's default namespace (a line)
  frames,      \* service: the frames it holds
  jobs,        \* service: the jobs it knows
  state,       \* "START" | "RUNNING" | "TERMINATED" | "CRASHED" | "EXITED"
  exitCode,    \* process exit status once state = "EXITED"
  last,        \* what the last dispatch did
  lineNum,     \* script mode: enumerate(f, 1) position
  fileRead,    \* script mode: the raw lines read so far
  dispatched,  \* script mode: the handler calls made so far
  diags,       \* script mode: the stderr diagnostics so far
  nsApplied    \* the startup code has set the default namespace to nsOpt

vars == << mode, nsOpt, connected, verbose, debug, version, defaultNs, frames,
           jobs, state, exitCode, last, lineNum, fileRead, dispatched, diags,
           nsApplied >>

-----------------------------------------------------------------------------
(* Bounds of the model *)

\* job ids known to the service range over 1..MaxJobId
MaxJobId == 3
\* frames of each kind in the namespace that is zapped or shown
MaxPerKind == 1
\* lines of a script file
MaxScriptLen == 3
\* generated value tokens have at most this many characters
MaxTokLen == 2

-----------------------------------------------------------------------------
(* Characters and Python's str / int primitives *)

Digits == <<"0", "1", "2", "3", "4", "5", "6", "7", "8", "9">>
UpperChars == <<"A","B","C","D","E","F","G","H","I","J","K","L","M",
                "N","O","P","Q","R","S","T","U","V","W","X","Y","Z">>
LowerChars == <<"a","b","c","d","e","f","g","h","i","j","k","l","m",
                "n","o","p","q","r","s","t","u","v","w","x","y","z">>

IsDigit(c) == \E i \in 1..Len(Digits) : Digits[i] = c
DigitVal(c) == (CHOOSE i \in 1..Len(Digits) : Digits[i] = c) - 1

\* characters str.isnumeric() accepts: the decimal digits and other numeric
\* characters such as SUPERSCRIPT TWO, which int() rejects
IsNumericChar(c) == IsDigit(c) \/ c = "²"

LowerChar(c) ==
  IF \E i \in 1..Len(UpperChars) : UpperChars[i] = c
  THEN LowerChars[CHOOSE i \in 1..Len(UpperChars) : UpperChars[i] = c]
  ELSE c

\* str.lower()
lower(s) == [i \in 1..Len(s) |-> LowerChar(s[i])]

\* str.isnumeric(): non-empty and every character numeric
isnumeric(s) == Len(s) > 0 /\ \A i \in 1..Len(s) : IsNumericChar(s[i])

IsDecimal(s) == Len(s) > 0 /\ \A i \in 1..Len(s) : IsDigit(s[i])

RECURSIVE DecValue(_)
DecValue(s) ==
  IF Len(s) = 0 THEN 0
  ELSE 10 * DecValue(SubSeq(s, 1, Len(s) - 1)) + DigitVal(s[Len(s)])

\* int(s) succeeds: an optional sign, then decimal digits
IntParses(s) ==
  \/ IsDecimal(s)
  \/ Len(s) > 1 /\ s[1] \in {"-", "+"} /\ IsDecimal(Tail(s))

\* int(s) for a token int() accepts
IntValue(s) ==
  IF s[1] = "-" THEN 0 - DecValue(Tail(s))
  ELSE IF s[1] = "+" THEN DecValue(Tail(s))
  ELSE DecValue(s)

\* str.startswith(prefix)
startswith(s, p) == Len(s) >= Len(p) /\ SubSeq(s, 1, Len(p)) = p

-----------------------------------------------------------------------------
(* Tokens *)

T_1 == <<"1">>
T_3 == <<"3">>
T_5 == <<"5">>
T_6 == <<"6">>
T_13 == <<"1", "3">>
T_m1 == <<"-", "1">>
T_m5 == <<"-", "5">>
T_p5 == <<"+", "5">>
T_a == <<"a">>
T_b == <<"b">>
T_x == <<"x">>
T_y == <<"y">>
T_abc == <<"a", "b", "c">>
T_eq == <<"=">>
T_set == <<"s", "e", "t">>
T_get == <<"g", "e", "t">>
T_true == <<"t", "r", "u", "e">>
T_True == <<"T", "r", "u", "e">>
T_false == <<"f", "a", "l", "s", "e">>
T_FALSE == <<"F", "A", "L", "S", "E">>
T_hello == <<"h", "e", "l", "l", "o">>
T_on == <<"o", "n">>
T_ON == <<"O", "N">>
T_off == <<"o", "f", "f">>
T_Off == <<"O", "f", "f">>
T_file == <<"f", ".", "c", "s", "v">>
T_hash == <<"#">>
T_note == <<"n", "o", "t", "e">>
T_hashnote == <<"#", "n", "o", "t", "e">>
T_foo == <<"f", "o", "o">>
T_user == <<"u">>

\* every token of at most MaxTokLen characters over a small alphabet
ValueAlphabet == {"5", "-", "+", "a", "²"}
GenTokens == UNION { [1..n -> ValueAlphabet] : n \in 1..MaxTokLen }

\* job status strings (Job.status)
ST_scheduled == <<"s","c","h","e","d","u","l","e","d">>
ST_running == <<"r","u","n","n","i","n","g">>
ST_completed == <<"c","o","m","p","l","e","t","e","d">>
ST_unknown == <<"u","n","k","n","o","w","n","_","j","o","b","_","s","t","a","t","u","s">>
JobStatuses == {ST_scheduled, ST_running, ST_completed, ST_unknown}

\* command verbs: the do_<verb> methods of XgtCli, and cmd.Cmd's do_help
V_cancel == <<"c","a","n","c","e","l">>
V_config == <<"c","o","n","f","i","g">>
V_debug == <<"d","e","b","u","g">>
V_default_namespace == <<"d","e","f","a","u","l","t","_","n","a","m","e","s","p","a","c","e">>
V_drop == <<"d","r","o","p">>
V_exit == <<"e","x","i","t">>
V_EOF == <<"E","O","F">>
V_job == <<"j","o","b">>
V_jobs == <<"j","o","b","s">>
V_memory == <<"m","e","m","o","r","y">>
V_namespaces == <<"n","a","m","e","s","p","a","c","e","s">>
V_query == <<"q","u","e","r","y">>
V_save == <<"s","a","v","e">>
V_schema == <<"s","c","h","e","m","a">>
V_scroll == <<"s","c","r","o","l","l">>
V_show == <<"s","h","o","w">>
V_show_frames == <<"s","h","o","w","_","f","r","a","m","e","s">>
V_verbose == <<"v","e","r","b","o","s","e">>
V_version == <<"v","e","r","s","i","o","n">>
V_user_labels == <<"u","s","e","r","_","l","a","b","e","l","s">>
V_zap == <<"z","a","p">>
V_help == <<"h","e","l","p">>

-----------------------------------------------------------------------------
(* The service's data: frames and jobs *)

FrameKinds == {"table", "vertex", "edge"}
NS_a == T_a
NS_b == T_b

KindChar(k) == IF k = "table" THEN "t" ELSE IF k = "vertex" THEN "v" ELSE "e"
KindRank(k) == IF k = "table" THEN 1 ELSE IF k = "vertex" THEN 2 ELSE 3

\* a frame as the service reports it: fully qualified name "<ns>__<k><i>";
\* count is the kind's own attribute (num_rows of a table, num_vertices of a
\* vertex frame, num_edges of an edge frame), num_rows the attribute every
\* kind of frame carries
Frame(ns, k, i) ==
  [ name |-> ns \o <<"_", "_", KindChar(k), Digits[i + 1]>>,
    ns |-> ns, kind |-> k, ord |-> 10 * i + KindRank(k), count |-> i + KindRank(k),
    num_rows |-> i + KindRank(k) ]

FrameUniverse ==
  { Frame(NS_a, k, i) : k \in FrameKinds, i \in 1..MaxPerKind }
    \cup { Frame(NS_b, "table", 1) }

\* a list in the service's catalogue order (ascending ord)
RECURSIVE FrameList(_)
FrameList(S) ==
  IF S = {} THEN <<>>
  ELSE LET f == CHOOSE g \in S : \A h \in S : g.ord <= h.ord
       IN <<f>> \o FrameList(S \ {f})

\* Connection.get_frames(namespace=ns, frame_type=k)
get_frames_of(F, ns, k) == FrameList({ f \in F : f.ns = ns /\ f.kind = k })
\* Connection.get_frames(namespace=ns)
get_frames_in(F, ns) == FrameList({ f \in F : f.ns = ns })

\* a job record; the optional diagnostics are lengths, -1 when the attribute
\* is None or missing
MkJob(id, st) ==
  [ id |-> id, user |-> T_user, status |-> st,
    start_time |-> 100 * id, end_time |-> 100 * id + id,
    description |-> IF id % 3 = 1 THEN T_note ELSE <<>>,
    query_plan |-> IF id % 3 = 1 THEN 2 ELSE IF id % 3 = 2 THEN -1 ELSE 0,
    visited_edges |-> IF id % 3 = 1 THEN 1 ELSE IF id % 3 = 2 THEN -1 ELSE 0,
    total_visited_edges |-> IF id % 3 = 1 THEN 7 ELSE IF id % 3 = 2 THEN -1 ELSE 0,
    timing |-> IF id % 3 = 1 THEN 2 ELSE IF id % 3 = 2 THEN -1 ELSE 0,
    itiming |-> IF id % 3 = 1 THEN 1 ELSE IF id % 3 = 2 THEN -1 ELSE 0,
    schema |-> IF id % 3 = 1 THEN 1 ELSE IF id % 3 = 2 THEN -1 ELSE 0 ]

JobIds == 1..MaxJobId
JobSets ==
  UNION { { { MkJob(i, f[i]) : i \in S } : f \in [S -> JobStatuses] } : S \in SUBSET JobIds }

-----------------------------------------------------------------------------
(* What a handler does: its return value, the exception it lets escape, what
   it prints, the service calls it issues, the job attributes it reads and
   the session and service state it leaves. *)

NoVal == [type |-> "none", b |-> FALSE, i |-> 0, s |-> <<>>]
BoolVal(b) == [type |-> "bool", b |-> b, i |-> 0, s |-> <<>>]
IntVal(i) == [type |-> "int", b |-> FALSE, i |-> i, s |-> <<>>]
StrVal(s) == [type |-> "str", b |-> FALSE, i |-> 0, s |-> s]

Msg(text, n, arg) == [text |-> text, n |-> n, arg |-> arg]
Call(op, n, arg, kind, val) == [op |-> op, n |-> n, arg |-> arg, kind |-> kind, val |-> val]

R0 ==
  [ ret |-> "False", exc |-> "none", out |-> <<>>, calls |-> <<>>, reads |-> {},
    frames |-> frames, defaultNs |-> defaultNs, verbose |-> verbose, debug |-> debug ]

Raise(r, e) == [r EXCEPT !.ret = "None", !.exc = e]
Say(r, m) == [r EXCEPT !.out = @ \o <<m>>]
Issue(r, c) == [r EXCEPT !.calls = @ \o <<c>>]

\* print("Not connected to a server"); return False
NotConnected == Say(R0, Msg("Not connected to a server", 0, <<>>))

\* any use of self.__server.<attr> while self.__server is None
NoneAttr(r) == Raise(r, "AttributeError")

-----------------------------------------------------------------------------
(* Command handlers, part 1 *)

\* the service call c is issued; when the service rejects it, xgt.XgtError
\* escapes the calling statement
Rejected(r, c) == Raise(Issue(r, c), "XgtError")

\* do_cancel (lines 106-122)
do_cancel(line, fail) ==
  IF ~connected THEN NotConnected
  ELSE IF Len(line) < 1
    THEN Say(R0, Msg("Usage: cancel <job-id>", 0, <<>>))
  ELSE IF ~IntParses(line[1])
    THEN Say(Say(R0, Msg("Usage: cancel <job-id>", 0, <<>>)),
             Msg("where:  <job-id> must be an integer", 0, <<>>))
  ELSE LET c == Call("cancel_job", IntValue(line[1]), <<>>, "", NoVal)
       IN IF fail THEN Rejected(R0, c) ELSE Issue(R0, c)

\* lines 135-137: which branch of the value coercion a token takes
IsBoolWord(value) == lower(value) = T_false \/ lower(value) = T_true
NumericTest(value) ==
  isnumeric(value) \/ (value[1] = "-" /\ isnumeric(Tail(value)))

\* lines 135-138: the value handed to set_config (int() must accept the token)
CoerceValue(value) ==
  IF IsBoolWord(value) THEN BoolVal(lower(value) = T_true)
  ELSE IF NumericTest(value) THEN IntVal(IntValue(value))
  ELSE StrVal(value)

\* line 138: int(value) raises ValueError
CoerceRaises(value) ==
  ~IsBoolWord(value) /\ NumericTest(value) /\ ~IntParses(value)

\* do_config (lines 124-149)
do_config(line, fail) ==
  IF ~connected THEN NotConnected
  ELSE IF Len(line) < 1
    THEN LET c == Call("get_config", 0, <<>>, "", NoVal)
         IN IF fail THEN Rejected(R0, c)
            ELSE Say(Issue(R0, c), Msg("key = value lines", 0, <<>>))
  ELSE IF line[1] /= T_set
    THEN Say(R0, Msg("Unknown config parameters", 0, line))
  ELSE IF Len(line) < 3 THEN Raise(R0, "IndexError")          \* fields[2]
  ELSE IF line[3] /= T_eq
    THEN Say(R0, Msg("Unknown config parameters", 0, line))
  ELSE IF Len(line) < 4 THEN Raise(R0, "IndexError")          \* fields[3]
  ELSE IF CoerceRaises(line[4]) THEN Raise(R0, "ValueError")  \* int(value)
  ELSE LET c == Call("set_config", 0, <<line[2]>>, "", CoerceValue(line[4]))
       IN IF fail THEN Say(Issue(R0, c), Msg("Error: XgtError", 0, <<>>))
          ELSE Issue(R0, c)

\* do_debug (lines 151-159)
do_debug(line, fail) ==
  [R0 EXCEPT !.debug = (Len(line) = 1 /\ lower(line[1]) = T_on)]

\* mutant of do_default_namespace: only the first token of the line is sent
do_default_namespace_first_token(line, fail) ==
  IF ~connected THEN NoneAttr(R0)
  ELSE IF Len(line) < 1
    THEN Say(Issue(R0, Call("get_default_namespace", 0, <<>>, "", NoVal)),
             Msg("Default namespace", 0, defaultNs))
  ELSE [Issue(R0, Call("set_default_namespace", 0, <<line[1]>>, "", NoVal))
          EXCEPT !.defaultNs = <<line[1]>>]

\* do_default_namespace (lines 161-167)
do_default_namespace(line, fail) ==
  IF ~connected THEN NoneAttr(R0)
  ELSE IF Len(line) < 1
    THEN LET c == Call("get_default_namespace", 0, <<>>, "", NoVal)
         IN IF fail THEN Rejected(R0, c)
            ELSE Say(Issue(R0, c), Msg("Default namespace", 0, defaultNs))
  ELSE LET c == Call("set_default_namespace", 0, line, "", NoVal)
       IN IF fail THEN Rejected(R0, c)
          ELSE [Issue(R0, c) EXCEPT !.defaultNs = line]

\* do_drop (lines 170-176)
do_drop(line, fail) ==
  IF Len(line) < 1 THEN Say(R0, Msg("Command:  DROP <frame-name>", 0, <<>>))
  ELSE IF ~connected THEN NoneAttr(R0)
  ELSE LET c == Call("drop_frame", 0, line, "", NoVal)
       IN IF fail THEN Rejected(R0, c)
          ELSE [Issue(R0, c) EXCEPT !.frames = { f \in frames : <<f.name>> /= line }]

\* do_exit (lines 178-186)
do_exit(line, fail) == [R0 EXCEPT !.ret = "True"]

\* do_EOF (lines 188-191)
do_EOF(line, fail) == Say(do_exit(line, fail), Msg("", 0, <<>>))

-----------------------------------------------------------------------------
(* Command handlers, part 2: jobs *)

\* mutant of JobTiming: the `scheduled` exception is lost (a plain else)
JobTiming_else(job) ==
  IF job.status = ST_running
    THEN [ out |-> << Msg("  start time", job.start_time, <<>>) >>,
           reads |-> { <<job.id, "start_time">> } ]
  ELSE [ out |-> << Msg("    start time", job.start_time, <<>>),
                    Msg("      end time", job.end_time, <<>>),
                    Msg("      duration", job.end_time - job.start_time, <<>>) >>,
         reads |-> { <<job.id, "start_time">>, <<job.id, "end_time">> } ]

\* lines 660-666: the timing block of one job and the time attributes read
JobTiming(job) ==
  IF job.status = ST_running
    THEN [ out |-> << Msg("  start time", job.start_time, <<>>) >>,
           reads |-> { <<job.id, "start_time">> } ]
  ELSE IF job.status /= ST_scheduled
    THEN [ out |-> << Msg("    start time", job.start_time, <<>>),
                      Msg("      end time", job.end_time, <<>>),
                      Msg("      duration", job.end_time - job.start_time, <<>>) >>,
           reads |-> { <<job.id, "start_time">>, <<job.id, "end_time">> } ]
  ELSE [ out |-> <<>>, reads |-> {} ]

\* lines 667-684: the fields printed after the timing block
JobDetails(job) ==
     (IF Len(job.description) > 0
        THEN << Msg("   description", job.id, job.description) >> ELSE <<>>)
  \o (IF job.query_plan > 0 THEN << Msg("   query plan", job.id, <<>>) >> ELSE <<>>)
  \o (IF job.visited_edges > 0 THEN << Msg(" visited edges", job.id, <<>>) >> ELSE <<>>)
  \o (IF job.total_visited_edges /= -1
        THEN << Msg(" total visited", job.total_visited_edges, <<>>) >> ELSE <<>>)
  \o (IF job.timing > 0
        THEN << Msg("        timing", job.id, <<>>) >>
             \o [i \in 1..job.timing |-> Msg("timing line", i, <<>>)]
        ELSE <<>>)
  \o (IF job.itiming > 0
        THEN << Msg("       _timing", job.id, <<>>) >>
             \o [i \in 1..job.itiming |-> Msg("_timing line", i, <<>>)]
        ELSE <<>>)
  \o (IF job.schema > 0 THEN << Msg("       schema", job.id, <<>>) >> ELSE <<>>)

\* lines 655-684: everything printed for one job
JobBlock(job) ==
  [ out |-> << Msg("Job #", job.id, <<job.user, job.status>>) >>
              \o JobTiming(job).out \o JobDetails(job),
    reads |-> JobTiming(job).reads ]

\* mutant of JobRange: range(start_job, end_job), the end excluded
JobRange_exclusive(start_job, end_job) == start_job..(end_job - 1)

\* line 652: range(start_job, end_job+1)
JobRange(start_job, end_job) == start_job..end_job

\* lines 652-684: the loop over the remaining ids of the range, ascending
RECURSIVE JobBlocks(_, _)
JobBlocks(ids, J) ==
  IF ids = {} THEN [out |-> <<>>, reads |-> {}]
  ELSE LET j == CHOOSE i \in ids : \A k \in ids : i <= k
           rest == JobBlocks(ids \ {j}, J)
       IN IF \E job \in J : job.id = j
          THEN LET b == JobBlock(CHOOSE job \in J : job.id = j)
               IN [out |-> b.out \o rest.out, reads |-> b.reads \cup rest.reads]
          ELSE rest

\* __process_job_command (lines 634-685)
process_job_command(line, fail) ==
  IF Len(line) < 1 \/ Len(line) > 2
    THEN Say(R0, Msg("Command format: job <job_id> (<end-job-number>)", 0, <<>>))
  ELSE IF ~IntParses(line[1]) \/ (Len(line) > 1 /\ ~IntParses(line[2]))
    THEN Say(R0, Msg("Command format: job <job_id> (<end-job-number>)", 0, <<>>))
  ELSE LET start_job == IntValue(line[1])
           end_job == IF Len(line) > 1 THEN IntValue(line[2]) ELSE start_job
           c == Call("get_jobs", 0, <<>>, "", NoVal)
           b == JobBlocks(JobRange(start_job, end_job), jobs)
       IN IF fail THEN Rejected(R0, c)
          ELSE [Issue(R0, c) EXCEPT !.out = b.out, !.reads = b.reads]

\* do_job (lines 193-205)
do_job(line, fail) ==
  IF ~connected THEN NotConnected
  ELSE process_job_command(line, fail)

\* mutant of JobsLines: the status filter ignores case
RECURSIVE JobsLines_ignore_case(_, _, _)
JobsLines_ignore_case(ids, J, line) ==
  IF ids = {} THEN <<>>
  ELSE LET j == CHOOSE i \in ids : \A k \in ids : i <= k
           job == CHOOSE x \in J : x.id = j
       IN (IF Len(line) < 1 \/ <<job.status>> = [i \in 1..Len(line) |-> lower(line[i])]
             THEN << Msg("job", j, <<job.status>>) >> ELSE <<>>)
          \o JobsLines_ignore_case(ids \ {j}, J, line)

\* lines 220-223: one line per job, ascending id, filtered by status
RECURSIVE JobsLines(_, _, _)
JobsLines(ids, J, line) ==
  IF ids = {} THEN <<>>
  ELSE LET j == CHOOSE i \in ids : \A k \in ids : i <= k
           job == CHOOSE x \in J : x.id = j
       IN (IF Len(line) < 1 \/ <<job.status>> = line
             THEN << Msg("job", j, <<job.status>>) >> ELSE <<>>)
          \o JobsLines(ids \ {j}, J, line)

\* do_jobs (lines 207-224)
do_jobs(line, fail) ==
  IF ~connected THEN NotConnected
  ELSE LET c == Call("get_jobs", 0, <<>>, "", NoVal)
       IN IF fail THEN Rejected(R0, c)
          ELSE [Issue(R0, c) EXCEPT !.out = JobsLines({ x.id : x \in jobs }, jobs, line)]

-----------------------------------------------------------------------------
(* Command handlers, part 3: memory, namespaces, query, frames *)

\* do_memory (lines 226-234)
do_memory(line, fail) ==
  IF ~connected THEN NotConnected
  ELSE LET c1 == Call("max_user_memory_size", 0, <<>>, "", NoVal)
           c2 == Call("free_user_memory_size", 0, <<>>, "", NoVal)
       IN IF fail THEN Rejected(R0, c1)
          ELSE Say(Issue(Issue(R0, c1), c2), Msg("Current RAM footprint", 0, <<>>))

\* Connection.get_namespaces(): the namespaces that hold a frame
get_namespaces(F) == { f.ns : f \in F }

\* do_namespaces (lines 236-243)
do_namespaces(line, fail) ==
  IF ~connected THEN NotConnected
  ELSE LET c == Call("get_namespaces", 0, <<>>, "", NoVal)
       IN IF fail THEN Rejected(R0, c)
          ELSE Say(Issue(R0, c), Msg("namespaces", Cardinality(get_namespaces(frames)), <<>>))

\* do_query (lines 245-262)
do_query(line, fail) ==
  IF ~connected THEN NotConnected
  ELSE LET c1 == Call("run_job", 0, line, "", NoVal)
           c2 == Call("get_data", 0, <<>>, "", NoVal)
       IN IF fail THEN Rejected(R0, c1)
          ELSE Say(Issue(Issue(R0, c1), c2), Msg("data", 0, <<>>))

\* Connection.get_frame(name) finds a frame
HasFrame(F, name) == \E f \in F : f.name = name
TheFrame(F, name) == CHOOSE f \in F : f.name = name

\* do_save (lines 264-278); the bare except also catches the AttributeError
\* of a None handle
do_save(line, fail) ==
  IF Len(line) < 2 THEN Say(R0, Msg("Usage: save <frame-name> <filename>", 0, <<>>))
  ELSE IF ~connected THEN Say(R0, Msg("Frame does not exist", 0, <<line[1]>>))
  ELSE LET c1 == Call("get_frame", 0, <<line[1]>>, "", NoVal)
           c2 == Call("save", 0, <<line[1], line[2]>>, "", NoVal)
       IN IF fail \/ ~HasFrame(frames, line[1])
          THEN Say(Issue(R0, c1), Msg("Frame does not exist", 0, <<line[1]>>))
          ELSE Issue(Issue(R0, c1), c2)

\* the raw line names a frame only when it is one token
LineFrame(F, line) == Len(line) = 1 /\ HasFrame(F, line[1])

\* do_schema (lines 280-296)
do_schema(line, fail) ==
  LET r == Say(R0, Msg("Showing schema of frame", 0, line))
      c == Call("get_frame", 0, line, "", NoVal)
  IN IF ~connected THEN Say(r, Msg("Frame does not exist", 0, line))
     ELSE IF fail \/ ~LineFrame(frames, line)
       THEN Say(Issue(r, c), Msg("Frame does not exist", 0, line))
     ELSE IF TheFrame(frames, line[1]).kind = "edge"
       THEN Say(Say(Issue(r, c), Msg("Schema", 0, line)), Msg("Source frame, Target frame", 0, line))
     ELSE Say(Issue(r, c), Msg("Schema", 0, line))

\* do_scroll (lines 298-312)
do_scroll(line, fail) ==
  LET c1 == Call("get_frame", 0, line, "", NoVal)
      c2 == Call("get_data", 0, line, "", NoVal)
  IN IF ~connected THEN Say(R0, Msg("Frame does not exist", 0, line))
     ELSE IF fail \/ ~LineFrame(frames, line)
       THEN Say(Issue(R0, c1), Msg("Frame does not exist", 0, line))
     ELSE Say(Issue(Issue(R0, c1), c2), Msg("Data:", 0, line))

-----------------------------------------------------------------------------
(* Command handlers, part 4: inventory, verbosity, zap *)

\* the reserved prefix of internal frames: 'xgt__'
InternalPrefix == <<"x", "g", "t", "_", "_">>

\* lines 328, 336, 344: a frame is listed
Listed(f) == verbose \/ ~startswith(f.name, InternalPrefix)

RECURSIVE SumCounts(_)
SumCounts(fs) == IF fs = <<>> THEN 0 ELSE Head(fs).count + SumCounts(Tail(fs))

\* lines 329 and 337: `+= table.num_rows`, `+= vertex.num_rows`
RECURSIVE SumRows(_)
SumRows(fs) == IF fs = <<>> THEN 0 ELSE Head(fs).num_rows + SumRows(Tail(fs))

\* lines 331, 339, 347: the count printed on a frame's line
ShownCount(f) == IF f.kind = "table" THEN f.num_rows ELSE f.count

\* lines 329, 337, 345: what a kind's total accumulates
ShowTotal(k, shown) == IF k = "edge" THEN SumCounts(shown) ELSE SumRows(shown)

\* lines 325-348: one kind's listing, its total and its label lookups
ShowKind(fs, what, total, k) ==
  LET shown == SelectSeq(fs, LAMBDA f : Listed(f))
  IN [ out |-> [i \in 1..Len(shown) |-> Msg(what, ShownCount(shown[i]), <<shown[i].name>>)]
                 \o << Msg(total, ShowTotal(k, shown), <<>>) >>,
       calls |-> [i \in 1..Len(shown) |->
                    Call("get_frame_labels", 0, <<shown[i].name>>, shown[i].kind, NoVal)] ]

\* do_show (lines 314-350)
do_show(line, fail) ==
  IF ~connected THEN NotConnected
  ELSE IF Len(line) < 1 THEN Say(R0, Msg("Usage: show <namespace>", 0, <<>>))
  ELSE LET ns == line[1]
           get(k) == Call("get_frames", 0, <<ns>>, k, NoVal)
           t == ShowKind(get_frames_of(frames, ns, "table"), "TableFrame", "Total table rows over all frames", "table")
           v == ShowKind(get_frames_of(frames, ns, "vertex"), "VertexFrame", "Total vertices over all frames", "vertex")
           e == ShowKind(get_frames_of(frames, ns, "edge"), "EdgeFrame", "Total edges over all frames", "edge")
       IN IF fail THEN Rejected(R0, get("table"))
          ELSE [R0 EXCEPT
                  !.out = t.out \o v.out \o e.out,
                  !.calls = <<get("table")>> \o t.calls \o <<get("vertex")>> \o v.calls
                              \o <<get("edge")>> \o e.calls]

\* lines 369-385: one kind's section of show_frames
FramesSection(fs, title) ==
  IF fs = <<>> THEN <<>>
  ELSE LET shown == SelectSeq(fs, LAMBDA f : Listed(f))
       IN << Msg(title, 0, <<>>) >>
            \o [i \in 1..Len(shown) |-> Msg("frame", shown[i].count, <<shown[i].name>>)]

\* frames of one kind in the namespace a line names
FramesOfLine(F, nsline, k) ==
  FrameList({ f \in F : <<f.ns>> = nsline /\ f.kind = k })

\* do_show_frames (lines 353-390)
do_show_frames(line, fail) ==
  IF ~connected THEN NotConnected
  ELSE LET c0 == Call("get_default_namespace", 0, <<>>, "", NoVal)
           get(k) == Call("get_frames", 0, defaultNs, k, NoVal)
           t == FramesOfLine(frames, defaultNs, "table")
           v == FramesOfLine(frames, defaultNs, "vertex")
           e == FramesOfLine(frames, defaultNs, "edge")
       IN IF fail THEN Rejected(R0, c0)
          ELSE [R0 EXCEPT
                  !.calls = <<c0, get("table"), get("vertex"), get("edge")>>,
                  !.out = << Msg("Frames in namespace", 0, defaultNs) >>
                            \o FramesSection(t, "Table Frames:")
                            \o FramesSection(v, "Vertex Frames:")
                            \o FramesSection(e, "Edge Frames:")
                            \o (IF t = <<>> /\ v = <<>> /\ e = <<>>
                                  THEN << Msg("  No frames found", 0, <<>>) >> ELSE <<>>)]

\* do_verbose (lines 392-399)
do_verbose(line, fail) ==
  [R0 EXCEPT !.verbose = (Len(line) < 1 \/ lower(line[1]) /= T_off)]

\* do_version (lines 401-408)
do_version(line, fail) ==
  LET r == Say(R0, Msg("Client version", 0, <<>>))
      c == Call("server_version", 0, <<>>, "", NoVal)
  IN IF ~connected THEN Say(r, Msg("Server is not connected", 0, <<>>))
     ELSE IF fail THEN Rejected(r, c)
     ELSE Say(Issue(r, c), Msg("Server version", 0, <<>>))

\* do_user_labels (lines 410-425)
do_user_labels(line, fail) ==
  IF ~connected THEN NotConnected
  ELSE LET c == Call("get_user_labels", 0, <<>>, "", NoVal)
       IN IF fail THEN Say(Issue(R0, c), Msg("Error retrieving user labels", 0, <<>>))
          ELSE Say(Issue(R0, c), Msg("User has no security labels", 0, <<>>))

\* __version_is_since (lines 687-697) over __version() (lines 699-704)
version_is_since(major, minor, patch) ==
  LET v1 == version[1]
      v2 == version[2]
      v3 == version[3]
  IN IF v1 > major THEN TRUE
     ELSE IF v1 < major THEN FALSE
     ELSE IF v2 > minor THEN TRUE
     ELSE IF v2 < minor THEN FALSE
     ELSE v3 >= patch

\* mutant of ZapKinds: the vertex frames are dropped first
ZapKinds_reversed == <<"vertex", "table", "edge">>

\* lines 443-458: the order in which the per-kind path drops the kinds
ZapKinds == <<"edge", "table", "vertex">>

\* lines 443-458: fetch one kind's frames, drop each, report it when verbose
ZapKind(ns, k) ==
  LET fs == get_frames_of(frames, ns, k)
      getter == IF k = "edge" THEN "get_edge_frames"
                ELSE IF k = "table" THEN "get_table_frames" ELSE "get_vertex_frames"
      title == IF k = "edge" THEN "EdgeFrame deleted"
               ELSE IF k = "table" THEN "TableFrame deleted" ELSE "VertexFrame deleted"
  IN [ calls |-> << Call(getter, 0, <<ns>>, k, NoVal) >>
                   \o [i \in 1..Len(fs) |-> Call("drop_frame", 0, <<fs[i].name>>, k, NoVal)],
       out |-> IF verbose THEN [i \in 1..Len(fs) |-> Msg(title, 0, <<fs[i].name>>)] ELSE <<>>,
       n |-> Len(fs) ]

\* do_zap (lines 427-462)
do_zap(line, fail) ==
  IF ~connected THEN NotConnected
  ELSE IF Len(line) < 1 THEN Say(R0, Msg("Usage: zap <namespace>", 0, <<>>))
  ELSE LET ns == line[1]
           left == { f \in frames : f.ns /= ns }
       IN IF version_is_since(1, 14, 0)
          THEN LET fs == get_frames_in(frames, ns)
                   c1 == Call("get_frames", 0, <<ns>>, "", NoVal)
                   c2 == Call("drop_frames", Len(fs), [i \in 1..Len(fs) |-> fs[i].name], "", NoVal)
               IN IF fail THEN Rejected(R0, c1)
                  ELSE [R0 EXCEPT !.calls = <<c1, c2>>,
                                  !.out = << Msg("Deleted frames in namespace", Len(fs), <<ns>>) >>,
                                  !.frames = left]
          ELSE LET k1 == ZapKind(ns, ZapKinds[1])
                   k2 == ZapKind(ns, ZapKinds[2])
                   k3 == ZapKind(ns, ZapKinds[3])
                   w == Call("wait_for_metrics", 0, <<>>, "", NoVal)
               IN IF fail THEN Rejected(R0, k1.calls[1])
                  ELSE [R0 EXCEPT !.calls = k1.calls \o <<w>> \o k2.calls \o k3.calls,
                                  !.out = k1.out \o k2.out \o k3.out
                                            \o << Msg("Deleted frames in namespace", k1.n + k2.n + k3.n, <<ns>>) >>,
                                  !.frames = left]

\* cmd.Cmd.do_help, inherited by class XgtCli(cmd.Cmd): prints help, returns None
do_help(line, fail) == [Say(R0, Msg("help", 0, line)) EXCEPT !.ret = "None"]

-----------------------------------------------------------------------------
(* Dispatch by name: getattr(self, 'do_' + verb) *)

ServiceVerbs ==
  { V_cancel, V_config, V_default_namespace, V_drop, V_job, V_jobs, V_memory,
    V_namespaces, V_query, V_save, V_schema, V_scroll, V_show, V_show_frames,
    V_user_labels, V_zap }

KnownVerbs ==
  ServiceVerbs \cup { V_debug, V_exit, V_EOF, V_verbose, V_version, V_help }

\* hasattr(self, 'do_' + verb)
hasattr_do(verb) == verb \in KnownVerbs

Handler(verb, line, fail) ==
  CASE verb = V_cancel -> do_cancel(line, fail)
    [] verb = V_config -> do_config(line, fail)
    [] verb = V_debug -> do_debug(line, fail)
    [] verb = V_default_namespace -> do_default_namespace(line, fail)
    [] verb = V_drop -> do_drop(line, fail)
    [] verb = V_exit -> do_exit(line, fail)
    [] verb = V_EOF -> do_EOF(line, fail)
    [] verb = V_job -> do_job(line, fail)
    [] verb = V_jobs -> do_jobs(line, fail)
    [] verb = V_memory -> do_memory(line, fail)
    [] verb = V_namespaces -> do_namespaces(line, fail)
    [] verb = V_query -> do_query(line, fail)
    [] verb = V_save -> do_save(line, fail)
    [] verb = V_schema -> do_schema(line, fail)
    [] verb = V_scroll -> do_scroll(line, fail)
    [] verb = V_show -> do_show(line, fail)
    [] verb = V_show_frames -> do_show_frames(line, fail)
    [] verb = V_verbose -> do_verbose(line, fail)
    [] verb = V_version -> do_version(line, fail)
    [] verb = V_user_labels -> do_user_labels(line, fail)
    [] verb = V_zap -> do_zap(line, fail)
    [] verb = V_help -> do_help(line, fail)

-----------------------------------------------------------------------------
(* The interactive loop: cmd.Cmd.cmdloop / onecmd over XgtCli *)

NoLast ==
  [ src |-> "none", verb |-> <<>>, line |-> <<>>, fail |-> FALSE,
    ret |-> "None", exc |-> "none", out |-> <<>>, calls |-> <<>>, reads |-> {},
    framesBefore |-> {}, verboseBefore |-> FALSE, defaultNsBefore |-> <<>>,
    nsAppliedBefore |-> FALSE ]

Record(src, verb, line, fail, r) ==
  [ src |-> src, verb |-> verb, line |-> line, fail |-> fail,
    ret |-> r.ret, exc |-> r.exc, out |-> r.out, calls |-> r.calls, reads |-> r.reads,
    framesBefore |-> frames, verboseBefore |-> verbose, defaultNsBefore |-> defaultNs,
    nsAppliedBefore |-> nsApplied ]

\* the session and service state a handler leaves
Apply(r) ==
  /\ verbose' = r.verbose
  /\ debug' = r.debug
  /\ defaultNs' = r.defaultNs
  /\ frames' = r.frames

\* no handler ran
Nothing == [R0 EXCEPT !.ret = "None"]

\* mutant of emptyline: the empty line ends the loop as exit does
emptyline_exits == [R0 EXCEPT !.ret = "True"]

\* emptyline (lines 92-93): pass
emptyline == [R0 EXCEPT !.ret = "None"]

\* cmd.Cmd.default, inherited by class XgtCli(cmd.Cmd): reports the line
default(line) == [Say(R0, Msg("*** Unknown syntax", 0, line)) EXCEPT !.ret = "None"]

\* cmdloop: `stop = self.onecmd(line)`, `while not stop`; an exception that
\* escapes the handler escapes cmdloop and __main__ (line 755)
AfterCommand(r) ==
  IF r.exc /= "none" THEN "CRASHED"
  ELSE IF r.ret = "True" THEN "TERMINATED"
  ELSE "RUNNING"

\* __main__ (lines 748-755): interactive mode applies the namespace option
\* through do_default_namespace, then enters cmdloop
MainInteractive(fail) ==
  /\ state = "START"
  /\ mode = "interactive"
  /\ IF nsOpt /= <<>>
     THEN LET r == do_default_namespace(nsOpt, fail)
          IN /\ Apply(r)
             /\ last' = Record("main", V_default_namespace, nsOpt, fail, r)
             /\ state' = IF r.exc /= "none" THEN "CRASHED" ELSE "RUNNING"
             /\ nsApplied' = (r.exc = "none")
     ELSE /\ fail = FALSE
          /\ state' = "RUNNING"
          /\ UNCHANGED << verbose, debug, defaultNs, frames, last, nsApplied >>
  /\ UNCHANGED << mode, nsOpt, connected, version, jobs, exitCode,
                  lineNum, fileRead, dispatched, diags >>

\* onecmd on a line whose verb names a do_ method
Onecmd(verb, line, fail) ==
  /\ state = "RUNNING"
  /\ mode = "interactive"
  /\ hasattr_do(verb)
  /\ LET r == Handler(verb, line, fail)
     IN /\ Apply(r)
        /\ last' = Record("handler", verb, line, fail, r)
        /\ state' = AfterCommand(r)
  /\ UNCHANGED << mode, nsOpt, connected, version, jobs, exitCode,
                  lineNum, fileRead, dispatched, diags, nsApplied >>

\* onecmd on an empty line
EmptyLine ==
  /\ state = "RUNNING"
  /\ mode = "interactive"
  /\ LET r == emptyline
     IN /\ Apply(r)
        /\ last' = Record("emptyline", <<>>, <<>>, FALSE, r)
        /\ state' = AfterCommand(r)
  /\ UNCHANGED << mode, nsOpt, connected, version, jobs, exitCode,
                  lineNum, fileRead, dispatched, diags, nsApplied >>

\* onecmd on a line whose verb names no do_ method
UnknownVerb(verb, line) ==
  /\ state = "RUNNING"
  /\ mode = "interactive"
  /\ ~hasattr_do(verb)
  /\ LET r == default(<<verb>> \o line)
     IN /\ Apply(r)
        /\ last' = Record("default", verb, line, FALSE, r)
        /\ state' = AfterCommand(r)
  /\ UNCHANGED << mode, nsOpt, connected, version, jobs, exitCode,
                  lineNum, fileRead, dispatched, diags, nsApplied >>

-----------------------------------------------------------------------------
(* Script mode: execute_file_and_exit (lines 550-588) *)

\* a raw line of the file: leading blanks, then its tokens
RawLine(indent, toks) == [indent |-> indent, toks |-> toks]

\* line 559: line.strip()
strip(raw) == raw.toks

\* mutant of ScriptSkips: the comment test is lost, only blank lines are skipped
ScriptSkips_blank_only(raw) == strip(raw) = <<>>

\* line 560: `not line or line.startswith('#')`
ScriptSkips(raw) ==
  IF strip(raw) = <<>> THEN TRUE ELSE startswith(strip(raw)[1], <<"#">>)

\* lines 552-557: the connection check and the open()
MainFile(found) ==
  /\ state = "START"
  /\ mode = "file"
  /\ IF ~connected \/ ~found
     THEN state' = "EXITED" /\ exitCode' = 1
     ELSE state' = "RUNNING" /\ exitCode' = exitCode
  /\ UNCHANGED << mode, nsOpt, connected, verbose, debug, version, defaultNs,
                  frames, jobs, last, lineNum, fileRead, dispatched, diags,
                  nsApplied >>

\* lines 558-561: a blank or comment line
ScriptSkip(raw) ==
  /\ state = "RUNNING"
  /\ mode = "file"
  /\ lineNum < MaxScriptLen
  /\ ScriptSkips(raw)
  /\ lineNum' = lineNum + 1
  /\ fileRead' = Append(fileRead, raw)
  /\ last' = Record("skip", <<>>, <<>>, FALSE, Nothing)
  /\ UNCHANGED << mode, nsOpt, connected, verbose, debug, version, defaultNs,
                  frames, jobs, state, exitCode, dispatched, diags, nsApplied >>

\* lines 563-582: a line whose verb names a do_ method
ScriptDispatch(raw, fail) ==
  /\ state = "RUNNING"
  /\ mode = "file"
  /\ lineNum < MaxScriptLen
  /\ ~ScriptSkips(raw)
  /\ hasattr_do(strip(raw)[1])
  /\ LET cmd_name == strip(raw)[1]
         cmd_args == Tail(strip(raw))
         r == Handler(cmd_name, cmd_args, fail)
     IN /\ Apply(r)
        /\ last' = Record("handler", cmd_name, cmd_args, fail, r)
        /\ dispatched' = Append(dispatched,
                           [line_num |-> lineNum + 1, verb |-> cmd_name, ret |-> r.ret, exc |-> r.exc])
        /\ diags' = IF r.exc /= "none"
                    THEN Append(diags, [line_num |-> lineNum + 1, text |-> "Error executing"])
                    ELSE diags
        /\ IF r.exc = "none" /\ r.ret = "True"
           THEN state' = "EXITED" /\ exitCode' = 0
           ELSE state' = state /\ exitCode' = exitCode
  /\ lineNum' = lineNum + 1
  /\ fileRead' = Append(fileRead, raw)
  /\ UNCHANGED << mode, nsOpt, connected, version, jobs, nsApplied >>

\* lines 579-580: a line whose verb names no do_ method
ScriptUnknown(raw) ==
  /\ state = "RUNNING"
  /\ mode = "file"
  /\ lineNum < MaxScriptLen
  /\ ~ScriptSkips(raw)
  /\ ~hasattr_do(strip(raw)[1])
  /\ lineNum' = lineNum + 1
  /\ fileRead' = Append(fileRead, raw)
  /\ diags' = Append(diags, [line_num |-> lineNum + 1, text |-> "Unknown command"])
  /\ last' = Record("unknown", strip(raw)[1], Tail(strip(raw)), FALSE, Nothing)
  /\ UNCHANGED << mode, nsOpt, connected, verbose, debug, version, defaultNs,
                  frames, jobs, state, exitCode, dispatched, nsApplied >>

\* the file is exhausted: the function returns and the process ends
ScriptEnd ==
  /\ state = "RUNNING"
  /\ mode = "file"
  /\ state' = "EXITED"
  /\ exitCode' = 0
  /\ UNCHANGED << mode, nsOpt, connected, verbose, debug, version, defaultNs,
                  frames, jobs, last, lineNum, fileRead, dispatched, diags,
                  nsApplied >>

-----------------------------------------------------------------------------
(* Single-query and single-command modes (lines 466-530) *)

\* lines 474-477 and 523-526: `if namespace:` set it as the default namespace
\* and say so when verbose; a rejected call raises into the enclosing try
SetNamespace(r, rejected) ==
  IF nsOpt = <<>> THEN r
  ELSE LET c == Call("set_default_namespace", 0, nsOpt, "", NoVal)
       IN IF rejected THEN Rejected(r, c)
          ELSE LET r1 == [Issue(r, c) EXCEPT !.defaultNs = nsOpt]
               IN IF verbose THEN Say(r1, Msg("Set default namespace to", 0, nsOpt))
                  ELSE r1

\* statement order inside one try block: what r1 did, then what h did
ThenRun(r1, h) ==
  [h EXCEPT !.calls = r1.calls \o @,
            !.out = r1.out \o @,
            !.defaultNs = IF h.defaultNs /= defaultNs THEN h.defaultNs ELSE r1.defaultNs]

\* the try block of execute_query_and_exit (lines 472-511): the namespace,
\* then run_job and get_data, then the data printed in the chosen format;
\* failAt = 1 rejects the namespace call, failAt = 2 rejects run_job
execute_query(query, failAt) ==
  LET r1 == SetNamespace(R0, failAt = 1)
      c1 == Call("run_job", 0, query, "", NoVal)
      c2 == Call("get_data", 0, <<>>, "", NoVal)
  IN IF r1.exc /= "none" THEN r1
     ELSE IF failAt = 2 THEN ThenRun(r1, Rejected(R0, c1))
     ELSE ThenRun(r1, Say(Issue(Issue(R0, c1), c2), Msg("data", 0, <<>>)))

\* the try block of execute_command_and_exit (lines 521-541) on a command
\* whose verb names a do_ method; the handler's return value is dropped
execute_command(verb, line, failAt) ==
  LET r1 == SetNamespace(R0, failAt = 1)
  IN IF r1.exc /= "none" THEN r1
     ELSE ThenRun(r1, Handler(verb, line, failAt = 2))

\* execute_query_and_exit (lines 466-514), then the end of __main__
MainQuery(query, failAt) ==
  /\ state = "START"
  /\ mode = "query"
  /\ failAt = 1 => nsOpt /= <<>>
  /\ state' = "EXITED"
  /\ IF ~connected
     THEN /\ failAt = 0
          /\ exitCode' = 1
          /\ last' = Record("main", <<>>, <<>>, FALSE, NotConnected)
          /\ UNCHANGED << verbose, debug, defaultNs, frames, nsApplied >>
     ELSE LET r == execute_query(query, failAt)
          IN /\ Apply(r)
             /\ last' = Record(IF failAt = 1 THEN "main" ELSE "query", V_query, query, failAt /= 0, r)
             /\ nsApplied' = (nsOpt /= <<>> /\ failAt /= 1)
             /\ exitCode' = IF r.exc /= "none" THEN 1 ELSE 0
  /\ UNCHANGED << mode, nsOpt, connected, version, jobs,
                  lineNum, fileRead, dispatched, diags >>

\* execute_command_and_exit (lines 516-544), then the end of __main__;
\* command is the split command line
MainCommand(command, failAt) ==
  /\ state = "START"
  /\ mode = "command"
  /\ failAt = 1 => nsOpt /= <<>>
  /\ state' = "EXITED"
  /\ IF ~connected
     THEN /\ failAt = 0
          /\ exitCode' = 1
          /\ last' = Record("main", <<>>, <<>>, FALSE, NotConnected)
          /\ UNCHANGED << verbose, debug, defaultNs, frames, nsApplied >>
     ELSE IF failAt = 1 \/ command = <<>>
     THEN LET r == SetNamespace(R0, failAt = 1)
          IN /\ failAt /= 2
             /\ Apply(r)
             /\ last' = Record("main", <<>>, <<>>, failAt /= 0, r)
             /\ nsApplied' = (nsOpt /= <<>> /\ failAt /= 1)
             /\ exitCode' = IF r.exc /= "none" THEN 1 ELSE 0
     ELSE IF hasattr_do(command[1])
     THEN LET r == execute_command(command[1], Tail(command), failAt)
          IN /\ Apply(r)
             /\ last' = Record("command", command[1], Tail(command), failAt /= 0, r)
             /\ nsApplied' = (nsOpt /= <<>>)
             /\ exitCode' = IF r.exc /= "none" THEN 1 ELSE 0
     ELSE LET r == Say(SetNamespace(R0, FALSE), Msg("Unknown command", 0, <<command[1]>>))
          IN /\ failAt = 0
             /\ Apply(r)
             /\ last' = Record("unknown", command[1], Tail(command), FALSE, r)
             /\ nsApplied' = (nsOpt /= <<>>)
             /\ exitCode' = 1
  /\ UNCHANGED << mode, nsOpt, connected, version, jobs,
                  lineNum, fileRead, dispatched, diags >>

-----------------------------------------------------------------------------
(* Inputs *)

F_a_t1 == Frame(NS_a, "table", 1)

\* argument lines tried for each verb in the general specification
ArgLines(verb) ==
  CASE verb = V_cancel -> { <<>>, <<T_1>>, <<T_abc>>, <<T_1, T_abc>> }
    [] verb = V_config -> { <<>>, <<T_set>>, <<T_set, T_x, T_eq, T_5>>, <<T_get, T_x>> }
    [] verb = V_debug -> { <<>>, <<T_ON>> }
    [] verb = V_default_namespace -> { <<>>, <<NS_a>>, <<NS_b>> }
    [] verb = V_drop -> { <<>>, <<F_a_t1.name>> }
    [] verb = V_job -> { <<>>, <<T_1>>, <<T_1, T_3>> }
    [] verb = V_jobs -> { <<>>, <<ST_running>> }
    [] verb = V_query -> { <<T_abc>> }
    [] verb = V_save -> { <<T_a>>, <<F_a_t1.name, T_file>> }
    [] verb = V_schema -> { <<F_a_t1.name>>, <<T_abc>> }
    [] verb = V_scroll -> { <<F_a_t1.name>>, <<T_abc>> }
    [] verb = V_show -> { <<>>, <<NS_a>> }
    [] verb = V_zap -> { <<>>, <<NS_a>> }
    [] verb = V_verbose -> { <<>>, <<T_Off>> }
    [] OTHER -> { <<>> }

UnknownVerbs == { T_foo, T_abc }

\* client library versions on both sides of 1.14.0
Versions == { <<1, 13, 9>>, <<1, 14, 0>>, <<2, 0, 0>>, <<0, 99, 99>> }

SomeJobs == { MkJob(1, ST_running), MkJob(3, ST_completed) }

\* lines of a script file
ScriptLines ==
  { RawLine(0, <<>>), RawLine(1, <<>>),
    RawLine(0, <<T_hash, T_note>>), RawLine(1, <<T_hashnote>>),
    RawLine(0, <<T_foo>>),
    RawLine(0, <<V_exit>>),
    RawLine(0, <<V_config, T_set>>),
    RawLine(1, <<V_verbose, T_Off>>),
    RawLine(0, <<V_query, T_abc>>) }

-----------------------------------------------------------------------------
(* Specifications *)

InitWith(modes, nsOpts, conns, verboses, versions, frameSets, jobSets) ==
  /\ mode \in modes
  /\ nsOpt \in nsOpts
  /\ connected \in conns
  /\ verbose \in verboses
  /\ debug = FALSE
  /\ version \in versions
  /\ defaultNs = <<T_user>>
  /\ frames \in frameSets
  /\ jobs \in jobSets
  /\ state = "START"
  /\ exitCode = 0
  /\ last = NoLast
  /\ lineNum = 0
  /\ fileRead = <<>>
  /\ dispatched = <<>>
  /\ diags = <<>>
  /\ nsApplied = FALSE

\* the interactive shell, every command
Init ==
  InitWith({"interactive"}, { <<>>, <<NS_a>> }, BOOLEAN, BOOLEAN, { <<1, 13, 9>>, <<1, 14, 0>> },
           { FrameUniverse }, { SomeJobs })

Next ==
  \/ \E fail \in BOOLEAN : MainInteractive(fail)
  \/ \E verb \in KnownVerbs : \E line \in ArgLines(verb) : \E fail \in BOOLEAN :
       Onecmd(verb, line, fail)
  \/ EmptyLine
  \/ \E verb \in UnknownVerbs : \E line \in { <<>>, <<T_1>> } : UnknownVerb(verb, line)

Spec == Init /\ [][Next]_vars

\* script mode
InitScript ==
  InitWith({"file"}, { <<>>, <<NS_a>> }, BOOLEAN, BOOLEAN, { <<1, 14, 0>> }, { FrameUniverse }, { SomeJobs })

NextScript ==
  \/ \E found \in BOOLEAN : MainFile(found)
  \/ \E raw \in ScriptLines : ScriptSkip(raw)
  \/ \E raw \in ScriptLines : \E fail \in BOOLEAN : ScriptDispatch(raw, fail)
  \/ \E raw \in ScriptLines : ScriptUnknown(raw)
  \/ ScriptEnd

SpecScript == InitScript /\ [][NextScript]_vars

\* command lines of the single-command mode and of the four-mode
\* specification; their handlers do not read the default namespace
CommandLines ==
  { <<>>, <<T_foo>>, <<V_query, T_abc>>, <<V_verbose, T_on>>, <<V_exit>>,
    <<V_default_namespace, NS_b>>, <<V_zap, NS_a>>, <<V_cancel, T_1>> }

ModeScriptLines ==
  { RawLine(0, <<>>), RawLine(0, <<T_hash, T_note>>), RawLine(0, <<T_foo>>),
    RawLine(0, <<V_exit>>), RawLine(0, <<V_query, T_abc>>),
    RawLine(0, <<V_default_namespace, NS_b>>) }

\* the four modes, with and without the namespace option
InitModes ==
  InitWith({"query", "command", "file", "interactive"}, { <<>>, <<NS_a>> }, BOOLEAN, BOOLEAN,
           { <<1, 14, 0>> }, { FrameUniverse }, { SomeJobs })

NextModes ==
  \/ \E failAt \in 0..2 : MainQuery(<<T_abc>>, failAt)
  \/ \E command \in CommandLines : \E failAt \in 0..2 : MainCommand(command, failAt)
  \/ \E found \in BOOLEAN : MainFile(found)
  \/ \E raw \in ModeScriptLines : ScriptSkip(raw)
  \/ \E raw \in ModeScriptLines : \E fail \in BOOLEAN : ScriptDispatch(raw, fail)
  \/ \E raw \in ModeScriptLines : ScriptUnknown(raw)
  \/ ScriptEnd
  \/ \E fail \in BOOLEAN : MainInteractive(fail)
  \/ \E command \in CommandLines \ { <<>> } : \E fail \in BOOLEAN :
       Onecmd(command[1], Tail(command), fail)
  \/ EmptyLine
  \/ \E command \in CommandLines \ { <<>> } : UnknownVerb(command[1], Tail(command))

SpecModes == InitModes /\ [][NextModes]_vars

\* the default namespace set and queried among other commands
NsLines ==
  { <<V_default_namespace>>, <<V_default_namespace, NS_a>>, <<V_default_namespace, NS_b>>,
    <<V_default_namespace, NS_a, NS_b>>, <<V_default_namespace, T_True>>,
    <<V_verbose, T_on>>, <<V_show_frames>>, <<V_zap, NS_a>>, <<V_exit>> }

InitNs ==
  InitWith({"interactive"}, { <<>>, <<NS_a>> }, BOOLEAN, BOOLEAN, { <<1, 14, 0>> },
           { FrameUniverse }, { SomeJobs })

NextNs ==
  \/ \E fail \in BOOLEAN : MainInteractive(fail)
  \/ \E l \in NsLines : \E fail \in BOOLEAN : Onecmd(l[1], Tail(l), fail)

SpecNs == InitNs /\ [][NextNs]_vars

\* `jobs` with and without a state, over every job set
T_Running == <<"R","u","n","n","i","n","g">>

JobsArgLines ==
  { <<>>, <<T_Running>>, <<T_abc>>, <<ST_running, ST_completed>> }
    \cup { <<st>> : st \in JobStatuses }

InitJobs ==
  InitWith({"interactive"}, { <<>> }, { TRUE }, { FALSE }, { <<1, 14, 0>> }, { FrameUniverse }, JobSets)

NextJobs ==
  \/ \E fail \in BOOLEAN : MainInteractive(fail)
  \/ \E line \in JobsArgLines : \E fail \in BOOLEAN : Onecmd(V_jobs, line, fail)

SpecJobs == InitJobs /\ [][NextJobs]_vars

\* `show` among `verbose` commands, over namespaces with and without
\* internal frames; the service reports num_rows and num_vertices of a vertex
\* frame separately, equal (skew 0) or not
NS_xgt == <<"x", "g", "t">>

ShowUniverse ==
  { Frame(NS_xgt, k, i) : k \in FrameKinds, i \in 1..MaxPerKind }
    \cup { Frame(NS_a, "table", 1), Frame(NS_a, "vertex", 1) }

Skew(S, d) ==
  { IF f.kind = "vertex" THEN [f EXCEPT !.num_rows = @ + d] ELSE f : f \in S }

ShowFrameSets == { Skew(S, d) : S \in SUBSET ShowUniverse, d \in 0..1 }

ShowLines ==
  { <<V_show>>, <<V_show, NS_a>>, <<V_show, NS_xgt>>, <<V_show, NS_xgt, NS_a>>,
    <<V_verbose>>, <<V_verbose, T_off>>, <<V_verbose, T_Off>>, <<V_verbose, T_on>> }

InitShow ==
  InitWith({"interactive"}, { <<>> }, { TRUE }, BOOLEAN, { <<1, 14, 0>> }, ShowFrameSets, { SomeJobs })

NextShow ==
  \/ \E fail \in BOOLEAN : MainInteractive(fail)
  \/ \E l \in ShowLines : \E fail \in BOOLEAN : Onecmd(l[1], Tail(l), fail)

SpecShow == InitShow /\ [][NextShow]_vars

\* cancel and config over many argument lines
ValueTokens == GenTokens \cup { T_true, T_True, T_false, T_FALSE, T_hello, T_13 }

CancelLines ==
  { <<>>, <<T_5, T_abc>>, <<T_5, T_6>>, <<T_abc, T_5>> }
    \cup { <<t>> : t \in ValueTokens }

ConfigLines ==
  { <<>>, <<T_set>>, <<T_set, T_x>>, <<T_set, T_x, T_eq>>, <<T_set, T_x, T_y, T_5>>,
    <<T_get>>, <<T_get, T_x, T_eq, T_5>>, <<T_x, T_eq, T_5>>,
    <<T_set, T_x, T_eq, T_5, T_6>>, <<T_set, T_x, T_y, T_5, T_6>> }
    \cup { <<T_set, T_x, T_eq, v>> : v \in ValueTokens }

InitArgs ==
  InitWith({"interactive"}, { <<>> }, BOOLEAN, BOOLEAN, { <<1, 14, 0>> }, { FrameUniverse }, { SomeJobs })

NextArgs ==
  \/ \E fail \in BOOLEAN : MainInteractive(fail)
  \/ \E line \in CancelLines : \E fail \in BOOLEAN : Onecmd(V_cancel, line, fail)
  \/ \E line \in ConfigLines : \E fail \in BOOLEAN : Onecmd(V_config, line, fail)

SpecArgs == InitArgs /\ [][NextArgs]_vars

\* the job command over every job set and many ranges
JobArgTokens == { T_1, T_3, T_m1, T_13, T_abc }

JobLines ==
  { <<>>, <<T_1, T_3, T_5>> }
    \cup { <<t>> : t \in JobArgTokens }
    \cup { <<t, u>> : t \in JobArgTokens, u \in JobArgTokens }

InitJob ==
  InitWith({"interactive"}, { <<>> }, { TRUE }, { FALSE }, { <<1, 14, 0>> }, { FrameUniverse }, JobSets)

NextJob ==
  \/ \E fail \in BOOLEAN : MainInteractive(fail)
  \/ \E line \in JobLines : \E fail \in BOOLEAN : Onecmd(V_job, line, fail)

SpecJob == InitJob /\ [][NextJob]_vars

\* the zap command over every inventory and both sides of the version gate
ZapLines == { <<>>, <<NS_a>>, <<NS_b>>, <<NS_a, T_1>>, <<T_abc>> }

InitZap ==
  InitWith({"interactive"}, { <<>> }, { TRUE }, BOOLEAN, Versions, SUBSET FrameUniverse, { SomeJobs })

NextZap ==
  \/ \E fail \in BOOLEAN : MainInteractive(fail)
  \/ \E line \in ZapLines : \E fail \in BOOLEAN : Onecmd(V_zap, line, fail)

SpecZap == InitZap /\ [][NextZap]_vars

-----------------------------------------------------------------------------
(* Claims *)

NotConnectedMsg == Msg("Not connected to a server", 0, <<>>)

\* C1: with no connection handle, every handler that needs the service
\* prints "Not connected to a server", makes no service call, raises nothing
\* and returns the non-terminating signal, so the loop stays RUNNING.
C1_NullHandleReported ==
  (last.src = "handler" /\ ~connected /\ last.verb \in ServiceVerbs) =>
    /\ last.out = << NotConnectedMsg >>
    /\ last.calls = <<>>
    /\ last.exc = "none"
    /\ last.ret = "False"
    /\ state = "RUNNING"

\* C2: the loop starts RUNNING and is TERMINATED exactly when the handler
\* just dispatched returned true; an empty line runs no handler, touches
\* nothing and leaves the loop RUNNING; an unknown verb is reported and
\* leaves the loop RUNNING.
C2_LoopStates ==
  (mode = "interactive" /\ state /= "START") =>
    /\ (last.src \in {"none", "main"} /\ state /= "CRASHED") => state = "RUNNING"
    /\ (state = "TERMINATED") <=>
         (last.src = "handler" /\ last.exc = "none" /\ last.ret = "True")
    /\ last.src = "emptyline" =>
         /\ state = "RUNNING"
         /\ last.out = <<>> /\ last.calls = <<>>
         /\ verbose = last.verboseBefore /\ frames = last.framesBefore
         /\ defaultNs = last.defaultNsBefore
    /\ last.src = "default" =>
         /\ state = "RUNNING"
         /\ last.out = << Msg("*** Unknown syntax", 0, <<last.verb>> \o last.line) >>
         /\ last.calls = <<>>

\* C2 witness: an exit command has ended the loop
C2_Witness ==
  mode = "interactive" /\ state = "TERMINATED" /\ last.verb = V_exit /\ last.ret = "True"

\* C3: in interactive mode a service error raised by a handler's service
\* call is caught inside the handler; nothing propagates and the loop stays
\* RUNNING.
C3_ServiceErrorsCaught ==
  (mode = "interactive" /\ last.src = "handler" /\ connected /\ last.fail
     /\ last.calls /= <<>>) =>
    (last.exc = "none" /\ state = "RUNNING")

\* C4: cancel accepts exactly one integer token; an empty line, a
\* non-integer token or more than one token gets a usage message and no
\* cancel_job call; one integer token gets one cancel_job call with that id.
C4_CancelExactlyOneInteger ==
  (last.src = "handler" /\ last.verb = V_cancel /\ connected) =>
    IF Len(last.line) = 1 /\ IntParses(last.line[1])
    THEN last.calls = << Call("cancel_job", IntValue(last.line[1]), <<>>, "", NoVal) >>
    ELSE /\ last.calls = <<>>
         /\ last.out /= <<>>
         /\ last.out[1] = Msg("Usage: cancel <job-id>", 0, <<>>)

\* the well-formed shape of `config set <param> = <value>`
IsConfigSet(line) == Len(line) = 4 /\ line[1] = T_set /\ line[3] = T_eq

\* C5: config with a non-empty argument line that is not exactly
\* `set <param> = <value>` reports an error, issues no set_config call,
\* raises no exception and returns the non-terminating signal.
C5_ConfigMalformedReported ==
  (last.src = "handler" /\ last.verb = V_config /\ connected
     /\ Len(last.line) >= 1 /\ ~IsConfigSet(last.line)) =>
    /\ last.exc = "none"
    /\ last.ret = "False"
    /\ last.out /= <<>>
    /\ \A i \in 1..Len(last.calls) : last.calls[i].op /= "set_config"

\* the value the claim says is sent: a boolean for true/false in any case, an
\* integer for digits with an optional sign, the token itself otherwise
C6_Claimed(value) ==
  IF lower(value) \in {T_true, T_false} THEN BoolVal(lower(value) = T_true)
  ELSE IF IsDecimal(value) THEN IntVal(DecValue(value))
  ELSE IF Len(value) > 1 /\ value[1] = "-" /\ IsDecimal(Tail(value))
    THEN IntVal(0 - DecValue(Tail(value)))
  ELSE IF Len(value) > 1 /\ value[1] = "+" /\ IsDecimal(Tail(value))
    THEN IntVal(DecValue(Tail(value)))
  ELSE StrVal(value)

\* C6: `config set <param> = <value>` passes to set_config the value coerced
\* as the claim says, for every value token.
C6_ConfigValueCoercion ==
  (last.src = "handler" /\ last.verb = V_config /\ connected /\ IsConfigSet(last.line)) =>
    last.calls = << Call("set_config", 0, <<last.line[2]>>, "", C6_Claimed(last.line[4])) >>

\* a job command that parsed its range and got the job list
C7_JobRan ==
  /\ last.src = "handler" /\ last.verb = V_job /\ connected /\ ~last.fail
  /\ Len(last.line) \in {1, 2}
  /\ \A i \in 1..Len(last.line) : IntParses(last.line[i])

C7_Start == IntValue(last.line[1])
C7_End == IntValue(last.line[Len(last.line)])

\* the ids of a set in ascending order
RECURSIVE C7_Ascending(_)
C7_Ascending(S) ==
  IF S = {} THEN <<>>
  ELSE LET m == CHOOSE i \in S : \A k \in S : i <= k
       IN <<m>> \o C7_Ascending(S \ {m})

\* the ids of the job headers printed, in print order
C7_HeaderIds(out) ==
  LET hs == SelectSeq(out, LAMBDA m : m.text = "Job #")
  IN [i \in 1..Len(hs) |-> hs[i].n]

RECURSIVE C7_Blocks(_)
C7_Blocks(ids) ==
  IF ids = <<>> THEN <<>>
  ELSE JobBlock(CHOOSE job \in jobs : job.id = Head(ids)).out \o C7_Blocks(Tail(ids))

\* C7: `job <start> [end]` prints one job block per id of {start..end} that
\* the service knows, in ascending id order, and nothing else: ids not found
\* are passed over without error and an empty range prints nothing.
C7_JobRangeIntersection ==
  C7_JobRan =>
    LET wanted == { i \in C7_Start..C7_End : \E job \in jobs : job.id = i }
    IN /\ C7_HeaderIds(last.out) = C7_Ascending(wanted)
       /\ last.out = C7_Blocks(C7_Ascending(wanted))
       /\ last.exc = "none" /\ last.ret = "False"
       /\ state = "RUNNING"

\* C7 witness: the range 1..3 over jobs 1 and 3 only printed both, past the gap
C7_Witness ==
  /\ C7_JobRan /\ last.line = <<T_1, T_3>>
  /\ { job.id : job \in jobs } = {1, 3}
  /\ C7_HeaderIds(last.out) = <<1, 3>>

\* the part of the output that is the block of job id: from its header up
\* to the next header
C8_BlockOf(out, id) ==
  LET heads == { i \in 1..Len(out) : out[i].text = "Job #" }
      h == CHOOSE i \in heads : out[i].n = id
      later == { i \in heads : i > h }
      stop == IF later = {} THEN Len(out) + 1
              ELSE CHOOSE i \in later : \A k \in later : i <= k
  IN SubSeq(out, h + 1, stop - 1)

C8_TimingKind(text) ==
  IF text \in {"  start time", "    start time"} THEN "start"
  ELSE IF text = "      end time" THEN "end"
  ELSE IF text = "      duration" THEN "duration"
  ELSE "other"

\* the timing lines of a block as <<kind, value>> pairs
C8_TimingOf(block) ==
  LET ts == SelectSeq(block, LAMBDA m : C8_TimingKind(m.text) /= "other")
  IN [i \in 1..Len(ts) |-> <<C8_TimingKind(ts[i].text), ts[i].n>>]

C8_StartOnly(job) == << <<"start", job.start_time>> >>
C8_Full(job) ==
  << <<"start", job.start_time>>, <<"end", job.end_time>>,
     <<"duration", job.end_time - job.start_time>> >>

C8_Printed == { job \in jobs : job.id \in C7_Start..C7_End }

\* C8 as claimed: running prints the start time only, scheduled and
\* unknown_job_status print no timing block, every other status prints start,
\* end and duration = end - start; end_time is never read for a running,
\* scheduled or unknown_job_status job.
C8_TimingByStatus ==
  C7_JobRan =>
    \A job \in C8_Printed :
      LET t == C8_TimingOf(C8_BlockOf(last.out, job.id))
      IN IF job.status = ST_running
           THEN t = C8_StartOnly(job) /\ <<job.id, "end_time">> \notin last.reads
         ELSE IF job.status \in {ST_scheduled, ST_unknown}
           THEN t = <<>> /\ <<job.id, "end_time">> \notin last.reads
         ELSE t = C8_Full(job)

\* C8 amended: unknown_job_status is treated like every other status that
\* is neither running nor scheduled.
C8_TimingByStatusAmended ==
  C7_JobRan =>
    \A job \in C8_Printed :
      LET t == C8_TimingOf(C8_BlockOf(last.out, job.id))
      IN IF job.status = ST_running
           THEN t = C8_StartOnly(job) /\ <<job.id, "end_time">> \notin last.reads
         ELSE IF job.status = ST_scheduled
           THEN /\ t = <<>>
                /\ <<job.id, "end_time">> \notin last.reads
                /\ <<job.id, "start_time">> \notin last.reads
         ELSE t = C8_Full(job) /\ <<job.id, "end_time">> \in last.reads

\* C8 witness: one command printed a running, a scheduled and an
\* unknown_job_status job
C8_Witness ==
  /\ C7_JobRan
  /\ \E a \in C8_Printed : a.status = ST_running
  /\ \E b \in C8_Printed : b.status = ST_scheduled
  /\ \E c \in C8_Printed : c.status = ST_unknown /\ <<c.id, "end_time">> \in last.reads

\* a zap that named a namespace and was not rejected by the service
C9_ZapRan ==
  /\ last.src = "handler" /\ last.verb = V_zap /\ connected /\ ~last.fail
  /\ Len(last.line) >= 1

\* the frames the namespace held when zap started
C9_Before == { f \in last.framesBefore : f.ns = last.line[1] }

C9_IsDrop(c) == c.op \in {"drop_frame", "drop_frames"}
C9_DropCalls == SelectSeq(last.calls, C9_IsDrop)

\* the names handed to the drop calls, in order
RECURSIVE C9_Dropped(_)
C9_Dropped(calls) ==
  IF calls = <<>> THEN <<>>
  ELSE (IF C9_IsDrop(Head(calls)) THEN Head(calls).arg ELSE <<>>) \o C9_Dropped(Tail(calls))

C9_Rank(name) ==
  LET k == (CHOOSE f \in FrameUniverse : f.name = name).kind
  IN IF k = "edge" THEN 1 ELSE IF k = "table" THEN 2 ELSE 3

C9_EdgesTablesVertices(d) ==
  \A i \in 1..Len(d) : \A j \in 1..Len(d) : i < j => C9_Rank(d[i]) <= C9_Rank(d[j])

\* every frame of the namespace is dropped once, the count N+M+K is
\* reported, and exactly those frames are gone
C9_AllDroppedAndCounted ==
  LET d == C9_Dropped(last.calls)
  IN /\ { d[i] : i \in 1..Len(d) } = { f.name : f \in C9_Before }
     /\ Len(d) = Cardinality(C9_Before)
     /\ last.out /= <<>>
     /\ last.out[Len(last.out)] =
          Msg("Deleted frames in namespace", Cardinality(C9_Before), <<last.line[1]>>)
     /\ frames = last.framesBefore \ C9_Before

\* C9 as claimed: zap drops every frame of the namespace, edges before tables
\* before vertices, and reports N+M+K; on an empty namespace it issues no
\* drop call at all and reports zero.
C9_ZapOrderAndCount ==
  C9_ZapRan =>
    /\ C9_AllDroppedAndCounted
    /\ C9_EdgesTablesVertices(C9_Dropped(last.calls))
    /\ C9_Before = {} => C9_DropCalls = <<>>

\* the client library is older than 1.14.0
C9_Before_1_14 == version[1] < 1 \/ (version[1] = 1 /\ version[2] < 14)

\* C9 amended: with a client library older than 1.14.0 zap drops the frames
\* one by one, edges before tables before vertices, and issues no drop call
\* on an empty namespace; from 1.14.0 on it hands every frame of the
\* namespace, in the order the service lists them, to one drop_frames call,
\* issued even when the namespace is empty.  Either way every frame is
\* dropped and N+M+K is reported.
C9_ZapByVersion ==
  C9_ZapRan =>
    /\ C9_AllDroppedAndCounted
    /\ IF C9_Before_1_14
       THEN /\ \A i \in 1..Len(C9_DropCalls) : C9_DropCalls[i].op = "drop_frame"
            /\ C9_EdgesTablesVertices(C9_Dropped(last.calls))
            /\ C9_Before = {} => C9_DropCalls = <<>>
       ELSE /\ Len(C9_DropCalls) = 1
            /\ C9_DropCalls[1].op = "drop_frames"
            /\ C9_DropCalls[1].arg =
                 [i \in 1..Cardinality(C9_Before) |-> FrameList(C9_Before)[i].name]

\* C9 witness: the per-kind path zapped a namespace holding an edge, a table
\* and a vertex frame
C9_Witness ==
  /\ C9_ZapRan /\ C9_Before_1_14
  /\ \A k \in FrameKinds : \E f \in C9_Before : f.kind = k
  /\ Len(C9_DropCalls) = Cardinality(C9_Before)

-----------------------------------------------------------------------------
(* C10: script mode *)

\* the line is blank, or its first non-space character is `#`
C10_BlankOrComment(raw) ==
  IF raw.toks = <<>> THEN TRUE ELSE raw.toks[1][1] = "#"

\* the positions of the dispatches and of the diagnostics of file line i
C10_DispatchesOf(i) == { k \in 1..Len(dispatched) : dispatched[k].line_num = i }

C10_DiagsOf(i) == { k \in 1..Len(diags) : diags[k].line_num = i }

C10_Raised(k) == dispatched[k].exc /= "none"

C10_Terminates(k) == dispatched[k].exc = "none" /\ dispatched[k].ret = "True"

\* what line i of the file has produced
C10_LineOutcome(i) ==
  LET raw == fileRead[i]
  IN IF C10_BlankOrComment(raw)
     THEN C10_DispatchesOf(i) = {} /\ C10_DiagsOf(i) = {}
     ELSE IF raw.toks[1] \in KnownVerbs
     THEN /\ \E k \in 1..Len(dispatched) :
               /\ C10_DispatchesOf(i) = {k}
               /\ dispatched[k].verb = raw.toks[1]
               /\ IF C10_Raised(k)
                  THEN \E d \in 1..Len(diags) :
                         C10_DiagsOf(i) = {d} /\ diags[d].text = "Error executing"
                  ELSE C10_DiagsOf(i) = {}
     ELSE /\ C10_DispatchesOf(i) = {}
          /\ \E d \in 1..Len(diags) :
               C10_DiagsOf(i) = {d} /\ diags[d].text = "Unknown command"

\* dispatches and diagnostics appear in the order of the file's lines
C10_InOrder ==
  /\ \A k, l \in 1..Len(dispatched) : k < l => dispatched[k].line_num < dispatched[l].line_num
  /\ \A k, l \in 1..Len(diags) : k < l => diags[k].line_num < diags[l].line_num

\* a dispatch that returned the termination signal is the last line read
C10_StopsAtSignal ==
  \A k \in 1..Len(dispatched) :
    C10_Terminates(k) =>
      /\ k = Len(dispatched)
      /\ dispatched[k].line_num = Len(fileRead)
      /\ state = "EXITED"

\* the scenario: a blank line, `# note`, `foo`
C10_Scenario ==
  fileRead = << RawLine(0, <<>>), RawLine(0, <<T_hash, T_note>>), RawLine(0, <<T_foo>>) >>

C10_Lines ==
  mode = "file" =>
    /\ lineNum = Len(fileRead)
    /\ \A i \in 1..Len(fileRead) : C10_LineOutcome(i)
    /\ C10_InOrder
    /\ C10_StopsAtSignal
    /\ state /= "CRASHED"
    /\ C10_Scenario =>
         /\ diags = << [line_num |-> 3, text |-> "Unknown command"] >>
         /\ dispatched = <<>>
         /\ state \in {"RUNNING", "EXITED"} /\ exitCode = 0

\* reading a line leaves the loop running unless a handler returned the
\* termination signal, and once the loop has ended nothing more is read
C10_Step ==
  /\ (mode = "file" /\ lineNum' = lineNum + 1) =>
       IF Len(dispatched') > Len(dispatched) /\ dispatched'[Len(dispatched')].exc = "none"
            /\ dispatched'[Len(dispatched')].ret = "True"
       THEN state' = "EXITED"
       ELSE state' = "RUNNING"
  /\ (mode = "file" /\ state = "EXITED") =>
       /\ fileRead' = fileRead
       /\ dispatched' = dispatched
       /\ diags' = diags

\* C10: script mode processes the file's lines in order: blank lines and
\* lines whose first non-space character is `#` dispatch nothing and report
\* nothing; every other line is dispatched once to the handler its verb names;
\* an unknown verb or an exception raised by a handler is reported once with
\* that line's 1-based number and the loop goes on with the next line; once
\* a handler returns the termination signal no later line is read.  A file of
\* a blank line, `# note` and `foo` yields exactly one unknown-command
\* diagnostic.
C10_ScriptMode == []C10_Lines /\ [][C10_Step]_vars

\* C10 witness: a handler raised on line 1 and was reported, the unknown verb
\* of line 2 was reported, and the handler of line 3 ended the script
C10_Witness ==
  /\ mode = "file" /\ Len(fileRead) = 3
  /\ Len(dispatched) = 2 /\ C10_Raised(1) /\ C10_Terminates(2)
  /\ dispatched[1].line_num = 1 /\ dispatched[2].line_num = 3
  /\ diags = << [line_num |-> 1, text |-> "Error executing"],
                [line_num |-> 2, text |-> "Unknown command"] >>
  /\ state = "EXITED"

-----------------------------------------------------------------------------
(* C11: the namespace option *)

\* the last step dispatched a query or a command
C11_Dispatched == last.src \in {"handler", "query", "command"}

\* the first service call of the last step set the default namespace to the option
C11_SetFirst ==
  IF last.calls = <<>> THEN FALSE
  ELSE last.calls[1].op = "set_default_namespace" /\ last.calls[1].arg = nsOpt

\* C11: when the namespace option is given, no query or command of the run,
\* in any of the four modes, is dispatched before the startup code has set
\* the service's default namespace to it.
C11_NamespaceBeforeDispatch ==
  (nsOpt /= <<>> /\ C11_Dispatched) =>
    \/ last.nsAppliedBefore
    \/ last.src \in {"query", "command"} /\ C11_SetFirst

-----------------------------------------------------------------------------
(* C12: default_namespace round trip *)

\* the last command was a connected `default_namespace` that did not raise
C12_Ran == /\ connected /\ last.src = "handler" /\ last.verb = V_default_namespace
           /\ last.exc = "none"

C12_SetRan == C12_Ran /\ Len(last.line) >= 1

C12_QueryRan == C12_Ran /\ Len(last.line) < 1

\* what the no-argument form prints when the default namespace is ns
C12_Report(ns) == << Msg("Default namespace", 0, ns) >>

\* the set form passes the line to the service as it is; the no-argument
\* form reports the service's default namespace and leaves it alone
C12_Forms ==
  /\ C12_SetRan =>
       /\ defaultNs = last.line
       /\ Len(last.calls) = 1
       /\ last.calls[1].op = "set_default_namespace" /\ last.calls[1].arg = last.line
  /\ C12_QueryRan =>
       /\ last.out = C12_Report(defaultNs)
       /\ defaultNs = last.defaultNsBefore
       /\ Len(last.calls) = 1
       /\ last.calls[1].op = "get_default_namespace"

\* a query that directly follows a set reports the name that was set, and in
\* between only a set form changes the default namespace
C12_Step ==
  /\ (C12_SetRan /\ C12_QueryRan') => last'.out = C12_Report(last.line)
  /\ (state = "RUNNING" /\ defaultNs' /= defaultNs) => C12_SetRan'

\* C12: when connected, `default_namespace <name>` followed, with no other
\* change of the default namespace in between, by `default_namespace` with no
\* argument reports exactly <name>; the no-argument form only queries and
\* never changes the default namespace.
C12_RoundTrip == []C12_Forms /\ [][C12_Step]_vars

\* C12 witness: the shell started with the namespace option, a two-token
\* name was set later, and the no-argument form reported the two-token name
C12_Witness ==
  /\ C12_QueryRan
  /\ last.out = C12_Report(<<NS_a, NS_b>>)
  /\ nsApplied

-----------------------------------------------------------------------------
(* C13: jobs *)

\* the last command was a connected `jobs` whose get_jobs call was accepted
C13_Ran == /\ connected /\ last.src = "handler" /\ last.verb = V_jobs
           /\ last.exc = "none"

\* the jobs the command is to print: all of them, or those whose status is
\* the text after the verb
C13_Selected ==
  IF last.line = <<>> THEN jobs ELSE { j \in jobs : <<j.status>> = last.line }

\* each printed line is the line of a selected job
C13_LineOfSelected(i) ==
  \E j \in C13_Selected :
    last.out[i] = Msg("job", j.id, <<j.status>>)

C13_Ascending ==
  \A i, k \in 1..Len(last.out) : i < k => last.out[i].n < last.out[k].n

\* C13: for every set of jobs known to the service, `jobs <state>` prints
\* exactly the jobs whose status equals <state> (exact, case-sensitive
\* match) and `jobs` with no argument prints all jobs; in both cases one line
\* per job, in ascending id order.
C13_JobsFilter ==
  C13_Ran =>
    /\ Len(last.out) = Cardinality(C13_Selected)
    /\ \A i \in 1..Len(last.out) : C13_LineOfSelected(i)
    /\ C13_Ascending

\* C13 witness: of three jobs, the two running ones are printed and the
\* third is left out
C13_Witness ==
  /\ C13_Ran /\ last.line = <<ST_running>>
  /\ Cardinality(jobs) = 3
  /\ Len(last.out) = 2

-----------------------------------------------------------------------------
(* C14: show *)

\* the last command was a connected `show <namespace>` the service accepted
C14_Ran == /\ connected /\ last.src = "handler" /\ last.verb = V_show
           /\ Len(last.line) >= 1 /\ last.exc = "none"

\* a frame is left out exactly when verbosity is off and it is internal
C14_Omitted(f) == ~last.verboseBefore /\ startswith(f.name, InternalPrefix)

\* the frames of one kind that are to be printed, in the service's order
C14_Printed(k) ==
  SelectSeq(get_frames_of(last.framesBefore, last.line[1], k), LAMBDA f : ~C14_Omitted(f))

\* rows for tables, vertices for vertex frames, edges for edge frames
C14_KindCount(f) == IF f.kind = "table" THEN f.num_rows ELSE f.count

RECURSIVE C14_Sum(_)
C14_Sum(fs) == IF fs = <<>> THEN 0 ELSE C14_KindCount(Head(fs)) + C14_Sum(Tail(fs))

\* one kind's lines followed by its total
C14_Section(k, what, total) ==
  LET fs == C14_Printed(k)
  IN [i \in 1..Len(fs) |-> Msg(what, C14_KindCount(fs[i]), <<fs[i].name>>)]
       \o << Msg(total, C14_Sum(fs), <<>>) >>

====
